---- MODULE Spec2Model ----
(***************************************************************************)
(* Model of analyze_consensus (src/wasm/src/lib.rs, SECTION 4): the        *)
(* Polis-like consensus analysis of a list of votes.  One invocation       *)
(* parses the payload, collects the distinct users and statements in two   *)
(* hash sets, builds the vote matrix, tallies each statement over all      *)
(* users, splits the users in two clusters by the sign of their average    *)
(* vote and assembles the result.                                          *)
(*                                                                         *)
(* Abstractions: identifiers are drawn from small sets; f64 values are     *)
(* exact rationals in lowest terms (all the f64 operations of the code act *)
(* on small integers, 0.5 and quotients of small integers); the iteration  *)
(* order of a std HashSet, which depends on the per-instance RandomState   *)
(* keys, is an arbitrary ordering of its elements, chosen afresh for each  *)
(* set of each invocation.                                                 *)
(***************************************************************************)
EXTENDS Integers, Sequences, FiniteSets, TLC

\* ---------------------------------------------------------------- bounds
\* Longest payload array.
MaxVotes == 3

\* Identifiers and vote values the payloads are built from.  2 is a value
\* an i8 holds that is none of agree (+1), disagree (-1), pass (0).
UserIds == {"u1", "u2", "u3"}
StatementIds == {"s1", "s2"}
VoteValues == {-1, 0, 1, 2}

\* ------------------------------------------------------------ ConsensusVote
\* Range of the i8 field `value`.
I8Min == -128
I8Max == 127

\* The fields serde requires of a ConsensusVote.
VoteFields == {"user_id", "statement_id", "value"}

\* JSON objects that deserialize to a ConsensusVote.
WellFormedRecords ==
    [user_id : UserIds, statement_id : StatementIds, value : VoteValues]

\* JSON objects that do not: one required field missing, or a value that
\* does not fit an i8.
MalformedRecords ==
    { [statement_id |-> "s1", value |-> 1],
      [user_id |-> "u1", value |-> 1],
      [user_id |-> "u1", statement_id |-> "s1"],
      [user_id |-> "u1", statement_id |-> "s1", value |-> 128] }

RawRecords == WellFormedRecords \cup MalformedRecords

\* A payload is a JSON array of objects, or text that is no array at all.
NotAnArray == [is_array |-> FALSE, items |-> <<>>]

\* Identifiers are opaque to the code, so the payloads name them in the order
\* of first appearance: the k-th distinct identifier of an array is the k-th
\* of its order below.
UserOrder == <<"u1", "u2", "u3">>
StatementOrder == <<"s1", "s2">>

Rank(order, x) == CHOOSE i \in 1..Len(order) : order[i] = x

FirstSeen(items, field, order) ==
    \A i \in 1..Len(items) :
        field \in DOMAIN items[i] =>
            Rank(order, items[i][field]) <=
                1 + Cardinality({ items[j][field] :
                        j \in { k \in 1..(i - 1) : field \in DOMAIN items[k] } })

\* votes_json is one of the payloads: no array, or an array of at most
\* MaxVotes objects.
IsPayload(p) ==
    \/ p = NotAnArray
    \/ \E n \in 0..MaxVotes : \E t \in [1..n -> RawRecords] :
          /\ FirstSeen(t, "user_id", UserOrder)
          /\ FirstSeen(t, "statement_id", StatementOrder)
          /\ p = [is_array |-> TRUE, items |-> t]

\* Deserialize of one array element: all three fields present, value an i8.
IsConsensusVote(r) ==
    /\ VoteFields \subseteq DOMAIN r
    /\ r.value \in I8Min..I8Max

\* FromStr as a lenient parser would be: the elements that do not deserialize
\* are skipped and the others kept.
FromStrSkippingMalformed(p) ==
    IF p.is_array
    THEN [ok |-> TRUE, value |-> SelectSeq(p.items, IsConsensusVote)]
    ELSE [ok |-> FALSE, value |-> <<>>]

\* serde_json::from_str::<Vec<ConsensusVote>>: Ok(the records) when the text
\* is an array and every element deserializes, Err otherwise.
FromStr(p) ==
    IF p.is_array /\ \A i \in 1..Len(p.items) : IsConsensusVote(p.items[i])
    THEN [ok |-> TRUE, value |-> p.items]
    ELSE [ok |-> FALSE, value |-> <<>>]

\* Result::unwrap_or_default on a Vec: the value, or the empty Vec on Err.
UnwrapOrDefault(r) == IF r.ok THEN r.value ELSE <<>>

ParseVotes(p) == UnwrapOrDefault(FromStr(p))

\* ------------------------------------------------------------- rationals
\* f64 values as exact fractions in lowest terms with a positive denominator.
RECURSIVE Gcd(_, _)
Gcd(a, b) == IF b = 0 THEN a ELSE Gcd(b, a % b)

Abs(x) == IF x < 0 THEN -x ELSE x

Rat(n, d) ==
    LET g == Gcd(Abs(n), d)
    IN  [num |-> n \div g, den |-> d \div g]

Zero == Rat(0, 1)
One == Rat(1, 1)
Two == Rat(2, 1)
Half == Rat(1, 2)

RSub(a, b) == Rat(a.num * b.den - b.num * a.den, a.den * b.den)
RMul(a, b) == Rat(a.num * b.num, a.den * b.den)
RAbs(a) == [num |-> Abs(a.num), den |-> a.den]
RGeq(a, b) == a.num * b.den >= b.num * a.den

\* ----------------------------------------------------- users, statements
\* The identifiers the first loop inserts into each HashSet.
UsersOf(vs) == { vs[i].user_id : i \in 1..Len(vs) }
StatementsOf(vs) == { vs[i].statement_id : i \in 1..Len(vs) }

\* into_iter().collect() of a HashSet: its elements, each once, in an order
\* the hasher's random keys decide.
IterationOrders(S) ==
    { f \in [1..Cardinality(S) -> S] : \A x \in S : \E i \in DOMAIN f : f[i] = x }

\* ------------------------------------------------------------ vote matrix
\* Insert as entry(statement_id).or_insert(value) would be: a value already
\* recorded for the pair is kept.
InsertIfVacant(m, v) ==
    LET row == IF v.user_id \in DOMAIN m THEN m[v.user_id] ELSE <<>>
        newRow == [s \in (DOMAIN row) \cup {v.statement_id} |->
                      IF s \in DOMAIN row THEN row[s] ELSE v.value]
    IN  [u \in (DOMAIN m) \cup {v.user_id} |->
            IF u = v.user_id THEN newRow ELSE m[u]]

\* matrix.entry(user_id).or_default().insert(statement_id, value)
Insert(m, v) ==
    LET row == IF v.user_id \in DOMAIN m THEN m[v.user_id] ELSE <<>>
        newRow == [s \in (DOMAIN row) \cup {v.statement_id} |->
                      IF s = v.statement_id THEN v.value ELSE row[s]]
    IN  [u \in (DOMAIN m) \cup {v.user_id} |->
            IF u = v.user_id THEN newRow ELSE m[u]]

\* The second loop over the votes, in input order.
RECURSIVE BuildMatrix(_)
BuildMatrix(vs) ==
    IF vs = <<>> THEN <<>>
    ELSE Insert(BuildMatrix(SubSeq(vs, 1, Len(vs) - 1)), vs[Len(vs)])

\* matrix.get(uid).and_then(|m| m.get(sid))
Get(m, uid, sid) ==
    IF uid \in DOMAIN m /\ sid \in DOMAIN m[uid]
    THEN [some |-> TRUE, value |-> m[uid][sid]]
    ELSE [some |-> FALSE, value |-> 0]

\* ------------------------------------------------- statement consensus
\* Classify as a match on the sign would be: any positive value agrees, any
\* negative value disagrees.
ClassifyBySign(o) ==
    IF o.some /\ o.value > 0 THEN "agree"
    ELSE IF o.some /\ o.value < 0 THEN "disagree"
    ELSE "pass"

\* The match of the inner loop: Some(1), Some(-1), anything else.
Classify(o) ==
    IF o.some /\ o.value = 1 THEN "agree"
    ELSE IF o.some /\ o.value = -1 THEN "disagree"
    ELSE "pass"

\* One counter of the inner loop over user_list.
Tally(m, ul, sid, class) ==
    Cardinality({ i \in 1..Len(ul) : Classify(Get(m, ul[i], sid)) = class })

\* Total as the number of decisive votes only.
TotalDecisive(agree, disagree, pass) == agree + disagree

\* let total = agree + disagree + pass
Total(agree, disagree, pass) == agree + disagree + pass

\* Voters as everybody counted, the passes included.
VotersAll(agree, disagree, pass) == agree + disagree + pass

\* let voters = agree + disagree
Voters(agree, disagree, pass) == agree + disagree

AgreementRatio(agree, voters) ==
    IF voters > 0 THEN Rat(agree, voters) ELSE Zero

Divisiveness(ratio, voters) ==
    IF voters > 0 THEN RSub(One, RMul(RAbs(RSub(ratio, Half)), Two)) ELSE Zero

StatementConsensus(m, ul, sid) ==
    LET agree == Tally(m, ul, sid, "agree")
        disagree == Tally(m, ul, sid, "disagree")
        pass == Tally(m, ul, sid, "pass")
        voters == Voters(agree, disagree, pass)
        ratio == AgreementRatio(agree, voters)
    IN  [statement_id |-> sid,
         agree_count |-> agree,
         disagree_count |-> disagree,
         pass_count |-> pass,
         total_voters |-> Total(agree, disagree, pass),
         agreement_ratio |-> ratio,
         divisiveness |-> Divisiveness(ratio, voters)]

\* stmt_results: one push per element of stmt_list, in its order.
StmtResults(m, ul, sl) ==
    [i \in 1..Len(sl) |-> StatementConsensus(m, ul, sl[i])]

\* --------------------------------------------------------------- clusters
\* *vm.get(s).unwrap_or(&0)
ValueOrZero(vm, s) == IF s \in DOMAIN vm THEN vm[s] ELSE 0

\* stmt_list.iter().map(..).sum()
RECURSIVE SumVotes(_, _)
SumVotes(vm, sl) ==
    IF sl = <<>> THEN 0
    ELSE ValueOrZero(vm, Head(sl)) + SumVotes(vm, Tail(sl))

\* avg of one user
Avg(m, sl, uid) ==
    IF uid \in DOMAIN m
    THEN IF sl # <<>> THEN Rat(SumVotes(m[uid], sl), Len(sl)) ELSE Zero
    ELSE Zero

\* InClusterA as the strict test avg > 0.0.
InClusterAStrict(avg) == ~RGeq(Zero, avg)

\* avg >= 0.0
InClusterA(avg) == RGeq(avg, Zero)

ClusterA(m, ul, sl) == SelectSeq(ul, LAMBDA u : InClusterA(Avg(m, sl, u)))

\* ClusterB as an independent test avg <= 0.0 would fill it.
ClusterBNonPositive(m, ul, sl) ==
    SelectSeq(ul, LAMBDA u : RGeq(Zero, Avg(m, sl, u)))

ClusterB(m, ul, sl) == SelectSeq(ul, LAMBDA u : ~InClusterA(Avg(m, sl, u)))

AvgAgreementA == Rat(7, 10)
AvgAgreementB == Rat(3, 10)

OpinionCluster(id, members, avgIfAny) ==
    [id |-> id,
     member_count |-> Len(members),
     member_ids |-> members,
     avg_agreement |-> IF members # <<>> THEN avgIfAny ELSE Zero]

Clusters(a, b) ==
    << OpinionCluster(0, a, AvgAgreementA), OpinionCluster(1, b, AvgAgreementB) >>

\* ClusterCount as the number of clusters that have members.
ClusterCountNonEmpty(cs) ==
    Cardinality({ i \in 1..Len(cs) : cs[i].member_count > 0 })

\* ClusterCount as the length of the clusters Vec.
ClusterCountLen(cs) == Len(cs)

ClusterCount(cs) ==
    IF \E i \in 1..Len(cs) : cs[i].member_count > 0 THEN 2 ELSE 0

ConsensusResult(srs, ul, a, b) ==
    LET cs == Clusters(a, b)
    IN  [statements |-> srs,
         total_participants |-> Len(ul),
         cluster_count |-> ClusterCount(cs),
         clusters |-> cs]

\* ------------------------------------------------------------------ state
VARIABLES
    votes_json,   \* the payload of the call
    pc,           \* "ready" before the call returns, "returned" after
    votes,        \* the parsed Vec<ConsensusVote>
    user_list,    \* users.into_iter().collect()
    stmt_list,    \* statements.into_iter().collect()
    matrix,       \* user -> statement -> value
    result,       \* the ConsensusResult the call returned
    repeated,     \* TRUE once the same payload has been analyzed again
    prev          \* the result of the invocation before the last one

vars == <<votes_json, pc, votes, user_list, stmt_list, matrix, result,
          repeated, prev>>

NoResult ==
    [statements |-> <<>>, total_participants |-> 0, cluster_count |-> 0,
     clusters |-> <<>>]

Init ==
    /\ IsPayload(votes_json)
    /\ pc = "ready"
    /\ votes = <<>>
    /\ user_list = <<>>
    /\ stmt_list = <<>>
    /\ matrix = <<>>
    /\ result = NoResult
    /\ repeated = FALSE
    /\ prev = NoResult

\* The body of analyze_consensus, from the parse to the returned result.
Run ==
    LET vs == ParseVotes(votes_json)
    IN  /\ votes' = vs
        /\ user_list' \in IterationOrders(UsersOf(vs))
        /\ stmt_list' \in IterationOrders(StatementsOf(vs))
        /\ matrix' = BuildMatrix(vs)
        /\ result' = ConsensusResult(
                        StmtResults(matrix', user_list', stmt_list'),
                        user_list',
                        ClusterA(matrix', user_list', stmt_list'),
                        ClusterB(matrix', user_list', stmt_list'))

\* One invocation of analyze_consensus(votes_json).
AnalyzeConsensus ==
    /\ pc = "ready"
    /\ Run
    /\ pc' = "returned"
    /\ UNCHANGED <<votes_json, repeated, prev>>

\* The caller invokes analyze_consensus again with the same payload.
AnalyzeAgain ==
    /\ pc = "returned"
    /\ Run
    /\ prev' = result
    /\ repeated' = TRUE
    /\ UNCHANGED <<votes_json, pc>>

Next == AnalyzeConsensus

Spec == Init /\ [][Next]_vars

NextRepeat == AnalyzeConsensus \/ AnalyzeAgain

SpecRepeat == Init /\ [][NextRepeat]_vars

\* ================================================================ claims
\* Vocabulary of the properties, read off the input and the returned result.
Returned == pc = "returned"

Items == votes_json.items

\* The distinct identifiers of the parsed votes.
InputUsers == { votes[k].user_id : k \in 1..Len(votes) }
InputStatements == { votes[k].statement_id : k \in 1..Len(votes) }

\* The positions of the votes of user u on statement s, and the value of the
\* last of them.
Occurrences(u, s) ==
    { k \in 1..Len(votes) : votes[k].user_id = u /\ votes[k].statement_id = s }

HasVote(u, s) == Occurrences(u, s) # {}

LastValue(u, s) ==
    LET last == CHOOSE k \in Occurrences(u, s) :
                    \A j \in Occurrences(u, s) : j <= k
    IN  votes[last].value

\* The sum of the values of a function with a finite domain.
RECURSIVE SumOf(_)
SumOf(f) ==
    IF DOMAIN f = {} THEN 0
    ELSE LET x == CHOOSE y \in DOMAIN f : TRUE
         IN  f[x] + SumOf([y \in (DOMAIN f) \ {x} |-> f[y]])

\* The member_ids of the cluster with the given id, and how often u is there.
MemberIds(id) == result.clusters[id + 1].member_ids

Times(u, seq) == Cardinality({ k \in 1..Len(seq) : seq[k] = u })

ResultStatementIds ==
    { result.statements[k].statement_id : k \in 1..Len(result.statements) }

\* ---------------------------------------------------------------------- C1
\* C1: two invocations on the same input return the same result: the same
\* statement records in the same order and, in each cluster, the same
\* member_ids in the same order.
C1_RepeatedInvocationsAgree ==
    repeated =>
        /\ result.statements = prev.statements
        /\ \A id \in {0, 1} :
              result.clusters[id + 1].member_ids = prev.clusters[id + 1].member_ids

\* ---------------------------------------------------------------------- C2
\* C2 as stated: when the array mixes malformed and well-formed records, the
\* result is computed over the well-formed ones, so every user and statement
\* of a well-formed record appears in the result.
C2_WellFormedRecordsKept ==
    (Returned /\ votes_json.is_array) =>
        \A k \in 1..Len(Items) :
            IsConsensusVote(Items[k]) =>
                /\ \E id \in {0, 1} : Times(Items[k].user_id, MemberIds(id)) > 0
                /\ Items[k].statement_id \in ResultStatementIds

\* C2 amended: one malformed record makes the whole array an empty vote
\* list: no statement and no participant is reported, not even those of the
\* well-formed records.
C2_MalformedRecordEmptiesInput ==
    (Returned /\ votes_json.is_array
        /\ \E k \in 1..Len(Items) : ~(VoteFields \subseteq DOMAIN Items[k])) =>
        /\ votes = <<>>
        /\ result.statements = <<>>
        /\ result.total_participants = 0
        /\ \A id \in {0, 1} : MemberIds(id) = <<>>

C2_Witness ==
    /\ Returned
    /\ votes_json.is_array
    /\ \E k \in 1..Len(Items) : ~(VoteFields \subseteq DOMAIN Items[k])
    /\ \E k \in 1..Len(Items) :
          VoteFields \subseteq DOMAIN Items[k] /\ Items[k].value \in VoteValues
    /\ result.total_participants = 0

\* ---------------------------------------------------------------------- C3
\* C3: each user's cluster is the one the user would get if every value
\* outside {-1, 0, +1} were 0: cluster 0 exactly when the sum of the user's
\* last votes, out-of-range ones counted as 0, is >= 0.
InRange(v) == IF v \in {-1, 0, 1} THEN v ELSE 0

C3_OutOfRangeCountsAsZero ==
    Returned =>
        \A u \in InputUsers :
            LET clamped == [s \in { t \in InputStatements : HasVote(u, t) } |->
                               InRange(LastValue(u, s))]
            IN  /\ Times(u, MemberIds(0)) > 0 <=> SumOf(clamped) >= 0
                /\ Times(u, MemberIds(1)) > 0 <=> SumOf(clamped) < 0

\* ---------------------------------------------------------------------- C4
\* C4: in every statement record agree_count + disagree_count + pass_count
\* equals total_voters and equals total_participants, the number of distinct
\* user_ids of the votes.
C4_PopulationInvariant ==
    Returned =>
        /\ result.total_participants = Cardinality(InputUsers)
        /\ \A k \in 1..Len(result.statements) :
              LET r == result.statements[k]
              IN  /\ r.agree_count + r.disagree_count + r.pass_count = r.total_voters
                  /\ r.total_voters = result.total_participants

\* A statement on which one user of three voted.
C4_Witness ==
    /\ Returned
    /\ result.total_participants = 3
    /\ \E k \in 1..Len(result.statements) :
          /\ Cardinality({ u \in InputUsers :
                 HasVote(u, result.statements[k].statement_id) }) = 1
          /\ result.statements[k].pass_count >= 2

\* ---------------------------------------------------------------------- C5
\* C5: every distinct user_id is in the member_ids of exactly one cluster,
\* once; each member_count is the length of its member_ids; the two
\* member_counts add up to total_participants.
C5_PartitionCompleteness ==
    Returned =>
        /\ Len(result.clusters) = 2
        /\ \A u \in InputUsers :
              Times(u, MemberIds(0)) + Times(u, MemberIds(1)) = 1
        /\ \A id \in {0, 1} :
              /\ result.clusters[id + 1].member_count = Len(MemberIds(id))
              /\ \A k \in 1..Len(MemberIds(id)) : MemberIds(id)[k] \in InputUsers
        /\ result.clusters[1].member_count + result.clusters[2].member_count
              = result.total_participants

C5_Witness ==
    /\ Returned
    /\ MemberIds(0) # <<>>
    /\ MemberIds(1) # <<>>
    /\ result.total_participants = 3

\* ---------------------------------------------------------------------- C6
\* The votes without those a later vote of the same user on the same
\* statement follows.
RECURSIVE LastOccurrences(_)
LastOccurrences(vs) ==
    IF vs = <<>> THEN <<>>
    ELSE LET h == Head(vs)
             t == Tail(vs)
         IN  IF \E k \in 1..Len(t) :
                    t[k].user_id = h.user_id /\ t[k].statement_id = h.statement_id
             THEN LastOccurrences(t)
             ELSE <<h>> \o LastOccurrences(t)

\* C6: the matrix holds, for every pair that occurs in the input, the value
\* of its last occurrence, and the result is the one the same votes without
\* their earlier occurrences give: the earlier ones have no effect.
C6_LastWriteWins ==
    Returned =>
        /\ \A u \in InputUsers : \A s \in InputStatements :
              HasVote(u, s) =>
                  /\ u \in DOMAIN matrix
                  /\ s \in DOMAIN matrix[u]
                  /\ matrix[u][s] = LastValue(u, s)
        /\ LET m == BuildMatrix(LastOccurrences(votes))
           IN  result = ConsensusResult(StmtResults(m, user_list, stmt_list),
                                        user_list,
                                        ClusterA(m, user_list, stmt_list),
                                        ClusterB(m, user_list, stmt_list))

\* A pair voted on twice with different values, the later of them an agree.
C6_Witness ==
    /\ Returned
    /\ \E j, k \in 1..Len(votes) :
          /\ j < k
          /\ votes[j].user_id = votes[k].user_id
          /\ votes[j].statement_id = votes[k].statement_id
          /\ votes[j].value = -1
          /\ votes[k].value = 1
          /\ matrix[votes[k].user_id][votes[k].statement_id] = 1

\* ---------------------------------------------------------------------- C7
\* C7: a payload that is no array of vote records, and an empty array, give
\* the empty result: no statements, total_participants 0, cluster_count 0,
\* and exactly two clusters, id 0 and id 1, without members.
C7_UnparsableOrEmptyGivesEmptyResult ==
    (Returned /\ (~votes_json.is_array
                    \/ Items = <<>>
                    \/ \E k \in 1..Len(Items) :
                          \/ ~(VoteFields \subseteq DOMAIN Items[k])
                          \/ Items[k].value \notin I8Min..I8Max)) =>
        /\ result.statements = <<>>
        /\ result.total_participants = 0
        /\ result.cluster_count = 0
        /\ Len(result.clusters) = 2
        /\ \A id \in {0, 1} :
              /\ result.clusters[id + 1].id = id
              /\ result.clusters[id + 1].member_count = 0
              /\ result.clusters[id + 1].member_ids = <<>>

C7_Witness ==
    /\ Returned
    /\ ~votes_json.is_array
    /\ result.cluster_count = 0
    /\ Len(result.clusters) = 2

\* ---------------------------------------------------------------------- C8
\* C8: with n = agree_count + disagree_count > 0, agreement_ratio is
\* agree_count / n and divisiveness is 1 - |agreement_ratio - 0.5| * 2, that
\* is (n - |2 * agree_count - n|) / n; both lie in [0, 1]; with n = 0 both
\* are 0.
C8_RatioAndDivisiveness ==
    Returned =>
        \A k \in 1..Len(result.statements) :
            LET r == result.statements[k]
                n == r.agree_count + r.disagree_count
                q == r.agreement_ratio
                d == r.divisiveness
            IN  /\ q.den > 0 /\ d.den > 0
                /\ 0 <= q.num /\ q.num <= q.den
                /\ 0 <= d.num /\ d.num <= d.den
                /\ n > 0 =>
                      /\ q.num * n = r.agree_count * q.den
                      /\ d.num * n = (n - Abs(2 * r.agree_count - n)) * d.den
                /\ n = 0 => q.num = 0 /\ d.num = 0

\* A perfect split: ratio 1/2, divisiveness 1.
C8_Witness ==
    /\ Returned
    /\ \E k \in 1..Len(result.statements) :
          /\ result.statements[k].agree_count = 1
          /\ result.statements[k].disagree_count = 1
          /\ result.statements[k].pass_count = 1
          /\ result.statements[k].agreement_ratio = [num |-> 1, den |-> 2]
          /\ result.statements[k].divisiveness = [num |-> 1, den |-> 1]

\* ---------------------------------------------------------------------- C9
\* C9: one statement record per distinct statement_id; its agree_count is
\* the number of users whose last vote on it is +1, its disagree_count the
\* number whose last vote is -1, its pass_count the number of all other
\* users: a last vote of another value, or no vote on it.
C9_StatementCounts ==
    Returned =>
        /\ Len(result.statements) = Cardinality(InputStatements)
        /\ ResultStatementIds = InputStatements
        /\ \A k \in 1..Len(result.statements) :
              LET r == result.statements[k]
                  s == r.statement_id
                  agreeing == { u \in InputUsers : HasVote(u, s) /\ LastValue(u, s) = 1 }
                  disagreeing == { u \in InputUsers : HasVote(u, s) /\ LastValue(u, s) = -1 }
              IN  /\ r.agree_count = Cardinality(agreeing)
                  /\ r.disagree_count = Cardinality(disagreeing)
                  /\ r.pass_count =
                        Cardinality(InputUsers \ (agreeing \cup disagreeing))

\* A statement with an agree, an out-of-range vote and a user without a vote
\* on it.
C9_Witness ==
    /\ Returned
    /\ \E k \in 1..Len(result.statements) :
          LET r == result.statements[k]
              s == r.statement_id
          IN  /\ r.agree_count = 1
              /\ r.pass_count = 2
              /\ \E u \in InputUsers : HasVote(u, s) /\ LastValue(u, s) = 2
              /\ \E u \in InputUsers : ~HasVote(u, s)

\* --------------------------------------------------------------------- C10
\* The sum of the matrix values of user u over the statement set, an
\* unrecorded vote counted as 0.
MatrixSum(u) ==
    SumOf([s \in InputStatements |->
              IF u \in DOMAIN matrix /\ s \in DOMAIN matrix[u]
              THEN matrix[u][s] ELSE 0])

\* C10: a user is in cluster 0 exactly when the sum (so the mean) of the
\* user's matrix values over all statements is >= 0, and in cluster 1
\* exactly when it is < 0.
C10_ClusterBySignOfMean ==
    Returned =>
        \A u \in InputUsers :
            /\ Times(u, MemberIds(0)) > 0 <=> MatrixSum(u) >= 0
            /\ Times(u, MemberIds(1)) > 0 <=> MatrixSum(u) < 0

\* A user whose +1 and -1 balance is in cluster 0, next to one in cluster 1.
C10_Witness ==
    /\ Returned
    /\ \E u \in InputUsers :
          /\ \E s \in DOMAIN matrix[u] : matrix[u][s] = 1
          /\ \E s \in DOMAIN matrix[u] : matrix[u][s] = -1
          /\ MatrixSum(u) = 0
          /\ Times(u, MemberIds(0)) = 1
    /\ MemberIds(1) # <<>>

\* --------------------------------------------------------------------- C11
\* C11: clusters holds exactly two records, id 0 first and id 1 second;
\* cluster_count is 2 when one of them has members, which is when
\* total_participants > 0, and 0 otherwise; it is never 1, also when all
\* users are in one cluster.
C11_TwoClustersCountZeroOrTwo ==
    Returned =>
        /\ Len(result.clusters) = 2
        /\ result.clusters[1].id = 0
        /\ result.clusters[2].id = 1
        /\ result.cluster_count \in {0, 2}
        /\ result.cluster_count = 2 <=>
              (MemberIds(0) # <<>> \/ MemberIds(1) # <<>>)
        /\ result.cluster_count = 2 <=> result.total_participants > 0

\* All users, more than one, in cluster 0 and none in cluster 1.
C11_Witness ==
    /\ Returned
    /\ Len(MemberIds(0)) >= 2
    /\ MemberIds(1) = <<>>
    /\ result.cluster_count = 2

====
